---- MODULE Spec2Model ----
(***************************************************************************)
(* Model of probeFilters.py: the greedy farthest-point selection           *)
(* select_diverse_subset with its helper next_diverse_selection and the    *)
(* haversine great_circle_distance.                                        *)
(*                                                                         *)
(* One behaviour is one call of select_diverse_subset.  The arguments      *)
(* (probe_list, k, probes_per_asn) are chosen in Init; the actions follow  *)
(* the statements of the function in program order.                        *)
(*                                                                         *)
(* A probe is a record [id, asn_v4, geometry].  geometry is the pair       *)
(* <<longitude, latitude>> of geometry['coordinates'] in degrees, or       *)
(* NoGeometry for Python's None.  asn_v4 is a group name or NoneASN for    *)
(* Python's None.  Ids are unique: the probe at index i of probe_list has  *)
(* id i.  Python's None as a list element (the best_probe that             *)
(* next_diverse_selection returns for an empty list) is NoneProbe.         *)
(***************************************************************************)
EXTENDS Integers, Sequences, FiniteSets, TLC

\* ------------------------------------------------------------------ bounds
MaxLen == 4
MaxK == 3
MaxCap == 1

\* --------------------------------------------------------------- constants
\* math.inf: larger than every distance and every count of the model
MathInf == 1000000
\* the radius of the earth in km
EarthRadius == 6371

NoGeometry == <<>>
NoneASN == "None"
NoneProbe == [id |-> 0, asn_v4 |-> NoneASN, geometry |-> NoGeometry]

\* Coordinates <<longitude, latitude>> for which the haversine terms are
\* rational: the equator at 0 and 60 degrees east, and the north pole.
Positions == {<<0, 0>>, <<60, 0>>, <<0, 90>>}
Groups == {"A"}
AsnKeys == Groups \cup {NoneASN}

\* The records a provider can supply at index i.  A probe without geometry
\* is dropped before its asn_v4 is ever read, so one such record suffices.
ProbesAt(i) ==
  {[id |-> i, asn_v4 |-> a, geometry |-> g] : a \in AsnKeys, g \in Positions}
    \cup {[id |-> i, asn_v4 |-> NoneASN, geometry |-> NoGeometry]}

RECURSIVE ProbeLists(_)
ProbeLists(n) ==
  IF n = 0 THEN {<<>>}
  ELSE {Append(l, p) : l \in ProbeLists(n - 1), p \in ProbesAt(n)}

VARIABLES probe_list, k, probes_per_asn, pc, alert, probes, selected,
          asn_counts, nearest_neighbors, select, exc

vars == <<probe_list, k, probes_per_asn, pc, alert, probes, selected,
          asn_counts, nearest_neighbors, select, exc>>

\* ------------------------------------------------ great_circle_distance
Abs(x) == IF x < 0 THEN -x ELSE x

Min2(a, b) == IF a <= b THEN a ELSE b

\* 4 * sin(d/2)**2 for a difference d of two of the model's angles
Hav4(d) ==
  CASE Abs(d) % 360 = 0 -> 0
    [] Abs(d) % 360 \in {60, 300} -> 1
    [] Abs(d) % 360 \in {90, 270} -> 2
    [] Abs(d) % 360 \in {120, 240} -> 3
    [] Abs(d) % 360 = 180 -> 4

\* math.cos of a latitude of the model
Cos(lat) == IF lat = 0 THEN 1 ELSE 0

\* 2 * math.asin(math.sqrt(a)) in degrees, for 4*a in 0..4
CentralAngle(a4) ==
  CASE a4 = 0 -> 0
    [] a4 = 1 -> 60
    [] a4 = 2 -> 90
    [] a4 = 3 -> 120
    [] a4 = 4 -> 180

\* km = 6371 * c with c in radians (pi taken as 355/113), in whole km
great_circle_distance(probe1, probe2) ==
  LET geo1 == probe1.geometry
      geo2 == probe2.geometry
      long1 == geo1[1]
      lat1 == geo1[2]
      long2 == geo2[1]
      lat2 == geo2[2]
      a4 == Hav4(lat2 - lat1) + Cos(lat1) * Cos(lat2) * Hav4(long2 - long1)
  IN (EarthRadius * CentralAngle(a4) * 355) \div (113 * 180)

\* ------------------------------------------------ next_diverse_selection
\* nearest_neighbors is a defaultdict(lambda: math.inf)
NNGet(nn, probe_id) == IF probe_id \in DOMAIN nn THEN nn[probe_id] ELSE MathInf

NNSet(nn, probe_id, v) ==
  [x \in DOMAIN nn \cup {probe_id} |-> IF x = probe_id THEN v ELSE nn[x]]

\* selected[0] instead of selected[-1]
FirstSelected(sel) == sel[1]

\* selected[-1]
LastSelected(sel) == sel[Len(sel)]

\* the new distance alone, the earlier minimum forgotten
UpdateLastOnly(old, d) == d

\* min(nearest_neighbors[probe_id], great_circle_distance(...))
UpdateNearest(old, d) == Min2(old, d)

\* >= instead of >: the last of several maximal probes wins
BetterOrEqual(d, max_min_dist) == d >= max_min_dist

\* nearest_neighbors[probe_id] > max_min_dist
Better(d, max_min_dist) == d > max_min_dist

RECURSIVE ForProbes(_, _, _, _, _, _)
ForProbes(ps, sel, nn, i, max_min_dist, best_probe) ==
  IF i > Len(ps) THEN [best_probe |-> best_probe, nearest_neighbors |-> nn]
  ELSE LET probe == ps[i]
           probe_id == probe.id
           d == UpdateNearest(NNGet(nn, probe_id),
                              great_circle_distance(probe, LastSelected(sel)))
           nn2 == NNSet(nn, probe_id, d)
       IN IF Better(d, max_min_dist)
          THEN ForProbes(ps, sel, nn2, i + 1, d, probe)
          ELSE ForProbes(ps, sel, nn2, i + 1, max_min_dist, best_probe)

next_diverse_selection(ps, sel, nn) == ForProbes(ps, sel, nn, 1, -1, NoneProbe)

\* ------------------------------------------------- select_diverse_subset
HasGeometry(probe) == probe.geometry # NoGeometry

\* <= instead of <: one probe too many per ASN
ObeysASNOffByOne(counts, probe, cap) == counts[probe.asn_v4] <= cap

\* asn_counts[probe['asn_v4']] < probes_per_asn
ObeysASN(counts, probe, cap) == counts[probe.asn_v4] < cap

\* the loop test with an off-by-one in the length
LoopCondShort(sel, kk, ps) == Len(sel) + 1 < kk /\ Len(ps) > 0

\* len(selected) < k and len(probes) > 0
LoopCond(sel, kk, ps) == Len(sel) < kk /\ Len(ps) > 0

\* the selected probe left in the list
RemoveNothing(ps, x) == ps

\* list.remove: drops the first element equal to x
Remove(ps, x) ==
  LET i == CHOOSE j \in 1..Len(ps) :
             ps[j] = x /\ \A h \in 1..(j - 1) : ps[h] # x
  IN SubSeq(ps, 1, i - 1) \o SubSeq(ps, i + 1, Len(ps))

Caps == (0..MaxCap) \cup {MathInf}

Init ==
  /\ probe_list \in UNION {ProbeLists(n) : n \in 0..MaxLen}
  /\ k \in 1..MaxK
  /\ probes_per_asn \in Caps
  /\ pc = "start"
  /\ alert = FALSE
  /\ probes = <<>>
  /\ selected = <<>>
  /\ asn_counts = [a \in AsnKeys |-> 0]
  /\ nearest_neighbors = <<>>
  /\ select = NoneProbe
  /\ exc = "None"

\* lines 27-30: drop the probes without coordinates, alert when some were
Filter ==
  /\ pc = "start"
  /\ probes' = SelectSeq(probe_list, HasGeometry)
  /\ alert' = (Len(probes') < Len(probe_list))
  /\ pc' = "seed"
  /\ UNCHANGED <<probe_list, k, probes_per_asn, selected, asn_counts,
                 nearest_neighbors, select, exc>>

\* lines 32-36: the first probe starts the selection
Seed ==
  /\ pc = "seed"
  /\ Len(probes) > 0
  /\ selected' = <<probes[1]>>
  /\ asn_counts' = [a \in AsnKeys |-> IF a = probes[1].asn_v4 THEN 1 ELSE 0]
  /\ probes' = Tail(probes)
  /\ nearest_neighbors' = <<>>
  /\ pc' = "loop"
  /\ UNCHANGED <<probe_list, k, probes_per_asn, alert, select, exc>>

\* line 32 on an empty list: probes[0] raises IndexError
SeedIndexError ==
  /\ pc = "seed"
  /\ Len(probes) = 0
  /\ exc' = "IndexError"
  /\ pc' = "done"
  /\ UNCHANGED <<probe_list, k, probes_per_asn, alert, probes, selected,
                 asn_counts, nearest_neighbors, select>>

\* lines 38-41: the loop test holds; keep the probes under the ASN cap and
\* choose among them
Select ==
  /\ pc = "loop"
  /\ LoopCond(selected, k, probes)
  /\ LET kept == SelectSeq(probes,
                   LAMBDA probe : ObeysASN(asn_counts, probe, probes_per_asn))
         r == next_diverse_selection(kept, selected, nearest_neighbors)
     IN /\ probes' = kept
        /\ select' = r.best_probe
        /\ nearest_neighbors' = r.nearest_neighbors
  /\ pc' = "picked"
  /\ UNCHANGED <<probe_list, k, probes_per_asn, alert, selected, asn_counts,
                 exc>>

\* lines 42-45: append the choice, count its ASN, take it out of the list
Take ==
  /\ pc = "picked"
  /\ select # NoneProbe
  /\ selected' = Append(selected, select)
  /\ asn_counts' = [asn_counts EXCEPT ![select.asn_v4] = @ + 1]
  /\ probes' = Remove(probes, select)
  /\ pc' = "loop"
  /\ UNCHANGED <<probe_list, k, probes_per_asn, alert, nearest_neighbors,
                 select, exc>>

\* lines 42-43 when no probe was left under the cap: None is appended and
\* select['asn_v4'] raises TypeError
TakeTypeError ==
  /\ pc = "picked"
  /\ select = NoneProbe
  /\ selected' = Append(selected, select)
  /\ exc' = "TypeError"
  /\ pc' = "done"
  /\ UNCHANGED <<probe_list, k, probes_per_asn, alert, probes, asn_counts,
                 nearest_neighbors, select>>

\* lines 38, 47: the loop test fails, selected is returned
Return ==
  /\ pc = "loop"
  /\ ~LoopCond(selected, k, probes)
  /\ pc' = "done"
  /\ UNCHANGED <<probe_list, k, probes_per_asn, alert, probes, selected,
                 asn_counts, nearest_neighbors, select, exc>>

Next ==
  \/ Filter
  \/ Seed
  \/ SeedIndexError
  \/ Select
  \/ Take
  \/ TakeTypeError
  \/ Return

Spec == Init /\ [][Next]_vars

\* ------------------------------------------------------------ properties
Positioned == SelectSeq(probe_list, HasGeometry)

Returned == pc = "done" /\ exc = "None"

Range(s) == {s[i] : i \in 1..Len(s)}

\* how many members of the sequence s carry the ASN key a
CountASN(s, a) == Cardinality({i \in 1..Len(s) : s[i].asn_v4 = a})

RECURSIVE SumCapped(_, _)
SumCapped(keys, cap) ==
  IF keys = {} THEN 0
  ELSE LET a == CHOOSE x \in keys : TRUE
       IN Min2(cap, CountASN(Positioned, a)) + SumCapped(keys \ {a}, cap)

\* the most probes any selection can hold without breaking the cap
MaxSelectable == SumCapped(AsnKeys, probes_per_asn)

RECURSIVE MinDistance(_, _, _)
MinDistance(probe, sel, i) ==
  IF i > Len(sel) THEN MathInf
  ELSE Min2(great_circle_distance(probe, sel[i]), MinDistance(probe, sel, i + 1))

\* the minimum of the distances from probe to every member of sel
BruteForceMin(probe, sel) == MinDistance(probe, sel, 1)

\* C1: with a cap supplied and k larger than the number of probes that can
\* be selected under the cap, the call returns normally with fewer than k
\* probes.
C1_ShortResultNoError ==
  (/\ pc = "done"
   /\ probes_per_asn \in 1..MaxCap
   /\ Len(Positioned) > 0
   /\ k > MaxSelectable)
    => (exc = "None" /\ Len(selected) < k)

\* C2 as stated: for every supplied cap, no ASN key is carried by more than
\* probes_per_asn probes of the returned list, the seed included.
C2_CapForEveryCap ==
  (Returned /\ probes_per_asn # MathInf)
    => \A a \in AsnKeys : CountASN(selected, a) <= probes_per_asn

\* C2 amended: for every supplied cap of at least 1, no ASN key (None being
\* one key) is carried by more than probes_per_asn probes of the returned
\* list.
C2_CapRespected ==
  (Returned /\ probes_per_asn \in 1..MaxCap)
    => \A a \in AsnKeys : CountASN(selected, a) <= probes_per_asn

\* a call returned in which the cap kept a probe with coordinates out
C2_Witness ==
  /\ Returned
  /\ probes_per_asn \in 1..MaxCap
  /\ Len(selected) >= 2
  /\ \E i \in 1..Len(Positioned) :
       /\ Positioned[i] \notin Range(selected)
       /\ CountASN(selected, Positioned[i].asn_v4) = probes_per_asn

\* C3: without a cap and with at least one probe with coordinates, the
\* returned list has min(k, number of probes with coordinates) members.
C3_ResultLength ==
  (pc = "done" /\ probes_per_asn = MathInf /\ Len(Positioned) > 0)
    => (exc = "None" /\ Len(selected) = Min2(k, Len(Positioned)))

\* an uncapped call returned after the loop ran, once stopped by k and once
\* by running out of probes
C3_Witness ==
  /\ Returned
  /\ probes_per_asn = MathInf
  /\ Len(selected) >= 2
  /\ Len(selected) = Len(Positioned)
  /\ Len(Positioned) < k
  /\ Len(Positioned) < Len(probe_list)

\* C4: a call on a list without any probe with coordinates fails with
\* EmptyPoolError.
C4_EmptyPoolError ==
  (pc = "done" /\ Len(Positioned) = 0) => exc = "EmptyPoolError"

\* C5: in every round the chosen probe's brute-force minimum distance to
\* the selected probes is at least that of every probe still eligible.
C5_GreedyStep ==
  (pc = "picked" /\ select # NoneProbe)
    => \A i \in 1..Len(probes) :
         BruteForceMin(select, selected) >= BruteForceMin(probes[i], selected)

\* a round after the first in which the choice beats another eligible probe
\* that is farther from the most recently selected probe
C5_Witness ==
  /\ pc = "picked"
  /\ select # NoneProbe
  /\ Len(selected) >= 2
  /\ \E i \in 1..Len(probes) :
       /\ BruteForceMin(select, selected) > BruteForceMin(probes[i], selected)
       /\ great_circle_distance(probes[i], LastSelected(selected))
            > great_circle_distance(select, LastSelected(selected))

\* C6: a probe whose ASN is None does not make the call fail.
C6_UnknownGroupNoFailure ==
  (/\ pc = "done"
   /\ Len(Positioned) > 0
   /\ \A i \in 1..Len(Positioned) : Positioned[i].asn_v4 = NoneASN)
    => exc = "None"

\* probes is a sub-list of probe_list in its order (the probe with id i is
\* probe_list[i])
InInputOrder(s) ==
  /\ \A i \in 1..Len(s) : s[i].id \in 1..Len(probe_list) /\ s[i] = probe_list[s[i].id]
  /\ \A i, j \in 1..Len(s) : i < j => s[i].id < s[j].id

IndexOf(s, x) == CHOOSE i \in 1..Len(s) : s[i] = x

\* C7: among the eligible probes with the maximal tracked distance the
\* first in input order is chosen, and the remaining probes keep their
\* input order.
C7_FirstOfTies ==
  /\ InInputOrder(probes)
  /\ (pc = "picked" /\ select # NoneProbe)
       => /\ select \in Range(probes)
          /\ \A i \in 1..Len(probes) :
               /\ nearest_neighbors[probes[i].id] <= nearest_neighbors[select.id]
               /\ (i < IndexOf(probes, select)
                     => nearest_neighbors[probes[i].id] < nearest_neighbors[select.id])

\* a round in which a later probe ties with the chosen one, after the cap
\* has filtered a probe out from before them
C7_Witness ==
  /\ pc = "picked"
  /\ select # NoneProbe
  /\ \E i \in 1..Len(probes) :
       /\ i > IndexOf(probes, select)
       /\ nearest_neighbors[probes[i].id] = nearest_neighbors[select.id]
       /\ probes[i].geometry # select.geometry
  /\ \E j \in 1..Len(Positioned) :
       /\ Positioned[j].id < select.id
       /\ Positioned[j] \notin Range(probes) \cup Range(selected)

\* C8: after the update of a round, the stored nearest distance of every
\* remaining probe is its minimum distance over all selected probes.
C8_NearestIsExact ==
  pc = "picked"
    => \A i \in 1..Len(probes) :
         /\ probes[i].id \in DOMAIN nearest_neighbors
         /\ nearest_neighbors[probes[i].id] = BruteForceMin(probes[i], selected)

\* a remaining probe whose stored distance comes from an earlier round: it
\* is nearer to an earlier selected probe than to the most recent one
C8_Witness ==
  /\ pc = "picked"
  /\ Len(selected) >= 2
  /\ \E i \in 1..Len(probes) :
       nearest_neighbors[probes[i].id]
         < great_circle_distance(probes[i], LastSelected(selected))

\* the statements still to run, weighted so that every step lowers it: a
\* round costs three and takes one probe out of the remaining list
PcRank ==
  CASE pc = "start" -> 4
    [] pc = "seed" -> 3
    [] pc = "loop" -> 2
    [] pc = "picked" -> 1
    [] pc = "done" -> 0

Variant == 3 * (IF pc = "start" THEN Len(probe_list) ELSE Len(probes)) + PcRank

\* Some statement can run.  Select assigns total expressions, so it can run
\* exactly when its guard holds.
CanStep ==
  \/ ENABLED Filter
  \/ ENABLED Seed
  \/ ENABLED SeedIndexError
  \/ (pc = "loop" /\ LoopCond(selected, k, probes))
  \/ ENABLED Take
  \/ ENABLED TakeTypeError
  \/ ENABLED Return

\* C9: every call terminates: each step lowers a natural-number measure in
\* which a round takes one probe out of the remaining list, the call is
\* never stuck before it ends, and a round only starts while fewer than
\* min(k, number of probes with coordinates) probes are selected, so there
\* are at most min(k, number of probes with coordinates) - 1 rounds.
C9_Terminates ==
  /\ [][Variant' < Variant]_vars
  /\ [](Variant >= 0 /\ (pc # "done" => CanStep))
  /\ [](pc = "picked" => Len(selected) <= Min2(k, Len(Positioned)) - 1)

\* a call that ended after two rounds
C9_Witness ==
  /\ pc = "done"
  /\ exc = "None"
  /\ Len(selected) = 3
  /\ Len(probes) > 0

NoDuplicates(s) == \A i, j \in 1..Len(s) : i # j => s[i] # s[j]

\* C10: in every state selected and the remaining probes are disjoint, hold
\* only probes of the input that have coordinates, and selected has no
\* duplicate.
C10_DisjointPositioned ==
  /\ Range(selected) \cap Range(probes) = {}
  /\ Range(selected) \subseteq Range(Positioned)
  /\ Range(probes) \subseteq Range(Positioned)
  /\ NoDuplicates(selected)

====
